---- MODULE Spec2Model ----
(***************************************************************************)
(* The write-ahead log of ExEx notifications (crates/exex/exex/src/wal).   *)
(*                                                                         *)
(* Wal owns a Storage (one stored WalEntry per file id) and a BlockCache   *)
(* (one row per block of every stored notification).  Wal::commit,         *)
(* Wal::finalize and Wal::remove are modelled from wal/mod.rs; Storage,    *)
(* BlockCache and the notification type live in files that are not part of *)
(* the excerpt and are modelled from their documented contract.            *)
(***************************************************************************)
EXTENDS Integers, Sequences, FiniteSets, TLC

VARIABLES
    storage,      \* Wal.storage: file id -> WalEntry, for the file ids on disk
    block_cache,  \* Wal.block_cache: sequence of rows (file_id, action, block)
    last,         \* the last call made on the Wal and what it returned
    ncommits,     \* number of commit calls made
    assigned,     \* file ids given to the commit calls that returned Ok
    nerrors,      \* number of calls that returned an error
    expanded      \* file id in the cache -> the rows its notification was
                  \* expanded to when it was committed (or loaded by Wal::new)

vars == <<storage, block_cache, last, ncommits, assigned, nerrors, expanded>>

---------------------------------------------------------------------------
(* Bounds and inputs *)

\* commit is called at most MaxCommits times.
MaxCommits == 3

\* The medium fails (a write, a read or a removal returns an error) at most
\* MaxErrors times.
MaxErrors == 1

\* u64::MAX, the boundary finalize uses when no row follows the finalized
\* entry.  It is only ever compared for equality with file ids, so the model
\* uses the largest value of the checker's integers.
U64_MAX == 2147483647

Block(n, h) == [number |-> n, hash |-> h]

\* The blocks of the model: block 1, a reorged block 1 and block 2
\* (tests::test_wal builds its blocks the same way: a canonical range and
\* reorged blocks with the same number).
B1  == Block(1, "a")
B1r == Block(1, "b")
B2  == Block(2, "a")

BlockNumHash == {B1, B1r, B2}

ChainCommitted(new) == [kind |-> "ChainCommitted", old |-> <<>>, new |-> new]
ChainReverted(old) == [kind |-> "ChainReverted", old |-> old, new |-> <<>>]
ChainReorged(old, new) == [kind |-> "ChainReorged", old |-> old, new |-> new]

\* The notifications handed to commit: single-block and multi-block commits,
\* a revert, and reorgs whose new chain has one and two blocks.
Notifications ==
    { ChainCommitted(<<B1>>),
      ChainCommitted(<<B1r, B2>>),
      ChainReverted(<<B1>>),
      ChainReorged(<<B1>>, <<B1r>>),
      ChainReorged(<<B1>>, <<B1r, B2>>) }

NotificationCommitTarget == {"Commit", "Canonicalize"}

WalEntry(target, notification) ==
    [target |-> target, notification |-> notification]

\* The (target, notification) pairs handed to commit: every notification as
\* a Commit, and one of them as a Canonicalize too.
CommitInputs ==
    { WalEntry("Commit", notification) : notification \in Notifications }
    \cup { WalEntry("Canonicalize", ChainCommitted(<<B1>>)) }

---------------------------------------------------------------------------
(* ExExNotification *)

\* committed_chain(): the new chain of a commit or a reorg, <<>> for None.
committed_chain(notification) == notification.new

\* reverted_chain(): the old chain of a revert or a reorg, <<>> for None.
reverted_chain(notification) == notification.old

---------------------------------------------------------------------------
(* Option<T>: None is <<>>, Some(x) is <<x>> *)

None == <<>>
Some(x) == <<x>>

---------------------------------------------------------------------------
(* BlockCache *)

CachedBlock(file_id, action, block) ==
    [file_id |-> file_id, action |-> action, block |-> block]

\* insert_notification_blocks_with_file_id: the reverted chain's blocks as
\* Revert rows, then the committed chain's blocks as Commit rows, pushed at
\* the back.
InsertNotificationBlocks(cache, file_id, notification) ==
    LET old == reverted_chain(notification)
        new == committed_chain(notification)
    IN  cache
          \o [i \in 1..Len(old) |-> CachedBlock(file_id, "Revert", old[i])]
          \o [i \in 1..Len(new) |-> CachedBlock(file_id, "Commit", new[i])]

\* remove_notification: drops every row tagged file_id.
RemoveNotification(cache, file_id) ==
    SelectSeq(cache, LAMBDA row : row.file_id # file_id)

\* back(): the newest row.
Back(cache) == IF cache = <<>> THEN None ELSE Some(cache[Len(cache)])

\* front(): the oldest row.
Front(cache) == IF cache = <<>> THEN None ELSE Some(cache[1])

\* pop_front(): the cache without its oldest row.
PopFront(cache) == IF cache = <<>> THEN cache ELSE Tail(cache)

\* The file ids that have rows in the cache.
CacheFileIds(cache) == { cache[i].file_id : i \in 1..Len(cache) }

---------------------------------------------------------------------------
(* Storage *)

\* The file ids on disk.
StorageFileIds(sto) == DOMAIN sto

\* write_entry: stores the entry at file_id.
WriteEntry(sto, file_id, entry) ==
    [id \in DOMAIN sto \cup {file_id} |-> IF id = file_id THEN entry ELSE sto[id]]

\* remove_entry / remove_entries: delete the given file ids.
RemoveEntries(sto, ids) == [id \in DOMAIN sto \ ids |-> sto[id]]

SetMin(S) == CHOOSE x \in S : \A y \in S : x <= y
SetMax(S) == CHOOSE x \in S : \A y \in S : x >= y

\* files_range(): None when the directory is empty, else (min, max).
FilesRange(sto) ==
    IF DOMAIN sto = {} THEN None
    ELSE Some(<<SetMin(DOMAIN sto), SetMax(DOMAIN sto)>>)

---------------------------------------------------------------------------
(* Wal *)

\* fill_block_cache: the rows of every stored notification, by ascending
\* file id over files_range.
RECURSIVE FillFrom(_, _, _, _)
FillFrom(sto, cache, file_id, end) ==
    IF file_id > end THEN cache
    ELSE FillFrom(sto,
                  InsertNotificationBlocks(cache, file_id, sto[file_id].notification),
                  file_id + 1, end)

\* A reload that leaves out the first stored entry.
FillBlockCacheSkipFirst(sto) ==
    LET files_range == FilesRange(sto)
    IN  IF files_range = None THEN <<>>
        ELSE FillFrom(sto, <<>>, files_range[1][1] + 1, files_range[1][2])

\* A reload that numbers the entries from 0.
FillBlockCacheFromZero(sto) ==
    LET files_range == FilesRange(sto)
        cache == IF files_range = None THEN <<>>
                 ELSE FillFrom(sto, <<>>, files_range[1][1], files_range[1][2])
    IN  [i \in 1..Len(cache) |->
            [cache[i] EXCEPT !.file_id = @ - files_range[1][1]]]

FillBlockCache(sto) ==
    LET files_range == FilesRange(sto)
    IN  IF files_range = None THEN <<>>
        ELSE FillFrom(sto, <<>>, files_range[1][1], files_range[1][2])

\* The rows one notification gives, tagged file_id.
Rows(file_id, notification) ==
    InsertNotificationBlocks(<<>>, file_id, notification)

\* What Wal::new knows of the entries it loaded: their rows.
Expanded(sto) == [id \in DOMAIN sto |-> Rows(id, sto[id].notification)]

\* The record of the expansions, for the file ids that still have rows.
StillCached(exp, cache) ==
    [id \in DOMAIN exp \cap CacheFileIds(cache) |-> exp[id]]

\* The record of a call: the operation, whether it returned Ok, commit's or
\* remove's file id, for finalize its block, the file id of the row that
\* matched and the locals remove_to_file_id and file_range_start/end, and
\* for commit the entry (target and notification) it was given.
Call(op, ok, file_id, to_block, matched, remove_to_file_id, file_range, entry) ==
    [op |-> op, ok |-> ok, file_id |-> file_id, to_block |-> to_block,
     matched |-> matched, remove_to_file_id |-> remove_to_file_id,
     file_range |-> file_range, entry |-> entry]

Init ==
    /\ storage = <<>>
    /\ block_cache = FillBlockCache(storage)
    /\ last = Call("new", TRUE, None, None, None, None, None, None)
    /\ ncommits = 0
    /\ assigned = {}
    /\ nerrors = 0
    /\ expanded = Expanded(storage)

\* A call that returns an error is one of the MaxErrors failures.
Returns(ok) ==
    /\ nerrors' = IF ok THEN nerrors ELSE nerrors + 1
    /\ nerrors' <= MaxErrors

\* A file id taken from the number of rows instead of the last row's id.
NextFileIdFromRows(cache) == Len(cache)

\* A file id taken from the first row of the cache.
NextFileIdFromFront(cache) ==
    IF Front(cache) = None THEN 0 ELSE Front(cache)[1].file_id + 1

\* commit, line 95: the file id of the new entry.
NextFileId(cache) ==
    IF Back(cache) = None THEN 0 ELSE Back(cache)[1].file_id + 1

\* A commit that puts the new rows in front of the cache.
CommitRowsInFront(target, notification, write_ok) ==
    LET file_id == NextFileId(block_cache)
    IN  /\ ncommits < MaxCommits
        /\ block_cache' = Rows(file_id, notification) \o block_cache
        /\ storage' = IF write_ok
                      THEN WriteEntry(storage, file_id, WalEntry(target, notification))
                      ELSE storage
        /\ last' = Call("commit", write_ok, Some(file_id), None, None, None, None,
                     Some(WalEntry(target, notification)))
        /\ ncommits' = ncommits + 1
        /\ assigned' = IF write_ok THEN assigned \cup {file_id} ELSE assigned
        /\ expanded' = [id \in DOMAIN expanded \cup {file_id} |->
                            IF id = file_id THEN Rows(file_id, notification)
                            ELSE expanded[id]]
        /\ Returns(write_ok)

\* A commit that stores every entry with the target Commit.
CommitDropsTarget(target, notification, write_ok) ==
    LET file_id == NextFileId(block_cache)
    IN  /\ ncommits < MaxCommits
        /\ block_cache' = InsertNotificationBlocks(block_cache, file_id, notification)
        /\ storage' = IF write_ok
                      THEN WriteEntry(storage, file_id, WalEntry("Commit", notification))
                      ELSE storage
        /\ last' = Call("commit", write_ok, Some(file_id), None, None, None, None,
                     Some(WalEntry(target, notification)))
        /\ ncommits' = ncommits + 1
        /\ assigned' = IF write_ok THEN assigned \cup {file_id} ELSE assigned
        /\ expanded' = [id \in DOMAIN expanded \cup {file_id} |->
                            IF id = file_id THEN Rows(file_id, notification)
                            ELSE expanded[id]]
        /\ Returns(write_ok)

\* Wal::commit.  write_ok is the answer of the medium to write_entry; a failed
\* write leaves the directory as it was and `?` returns the error.
Commit(target, notification, write_ok) ==
    LET file_id == NextFileId(block_cache)
    IN  /\ ncommits < MaxCommits
        /\ block_cache' = InsertNotificationBlocks(block_cache, file_id, notification)
        /\ storage' = IF write_ok
                      THEN WriteEntry(storage, file_id, WalEntry(target, notification))
                      ELSE storage
        /\ last' = Call("commit", write_ok, Some(file_id), None, None, None, None,
                     Some(WalEntry(target, notification)))
        /\ ncommits' = ncommits + 1
        /\ assigned' = IF write_ok THEN assigned \cup {file_id} ELSE assigned
        /\ expanded' = [id \in DOMAIN expanded \cup {file_id} |->
                            IF id = file_id THEN Rows(file_id, notification)
                            ELSE expanded[id]]
        /\ Returns(write_ok)

\* A test of the row that looks at the number of the block only.
IsFinalizedRowByNumber(row, to_block) ==
    /\ row.action = "Commit"
    /\ row.block.number = to_block.number

\* finalize, lines 121-123: the row commits to_block (same number and hash).
IsFinalizedRow(row, to_block) ==
    /\ row.action = "Commit"
    /\ row.block.number = to_block.number
    /\ row.block.hash = to_block.hash

\* Index of the first row of the cache that commits to_block, 0 when none does.
FirstMatch(cache, to_block) ==
    LET hits == { i \in 1..Len(cache) : IsFinalizedRow(cache[i], to_block) }
    IN  IF hits = {} THEN 0 ELSE SetMin(hits)

\* A boundary that skips the length test and always takes the next row.
UnfinalizedFromNextRow(cache, i, entry) ==
    IF i < Len(cache) THEN cache[i + 1].file_id ELSE U64_MAX

\* A boundary that always keeps the matched entry.
UnfinalizedFromOwnId(cache, i, entry) == cache[i].file_id

\* A boundary that keeps every matched entry stored as a Canonicalize.
UnfinalizedFromByTarget(cache, i, entry) ==
    IF entry.target = "Commit" /\ Len(committed_chain(entry.notification)) = 1
    THEN IF i < Len(cache) THEN cache[i + 1].file_id ELSE U64_MAX
    ELSE cache[i].file_id

\* finalize, lines 126-132: the boundary once the row at index i matched and
\* its entry was read: the file id of the next row (u64::MAX when the row is
\* the last) if the entry commits a single block, else the entry's own id.
UnfinalizedFrom(cache, i, entry) ==
    IF Len(committed_chain(entry.notification)) = 1
    THEN IF i < Len(cache) THEN cache[i + 1].file_id ELSE U64_MAX
    ELSE cache[i].file_id

\* read_entrry(file_id): succeeds when the medium does and the file exists.
ReadEntryOk(sto, file_id, read_ok) ==
    read_ok /\ file_id \in StorageFileIds(sto)

\* finalize, lines 116-145: the walk over the cache.  Every row that does not
\* match leaves its file id in unfinalized_from_file_id; the first match
\* reads its entry and decides the boundary.
ScanCache(cache, sto, to_block, read_ok) ==
    LET i == FirstMatch(cache, to_block)
    IN  IF i = 0
        THEN [err |-> FALSE, matched |-> None,
              unfinalized_from_file_id |->
                  IF cache = <<>> THEN None ELSE Some(cache[Len(cache)].file_id)]
        ELSE IF ~ReadEntryOk(sto, cache[i].file_id, read_ok)
        THEN [err |-> TRUE, matched |-> Some(cache[i].file_id),
              unfinalized_from_file_id |-> None]
        ELSE [err |-> FALSE, matched |-> Some(cache[i].file_id),
              unfinalized_from_file_id |->
                  Some(UnfinalizedFrom(cache, i, sto[cache[i].file_id]))]

\* A trim that pops a single row.
PopFrontOnce(cache, remove_to_file_id) ==
    IF Front(cache) = None \/ Front(cache)[1].file_id = remove_to_file_id
    THEN cache
    ELSE PopFront(cache)

\* finalize, lines 156-164: rows are popped from the front until the front
\* row carries remove_to_file_id or the cache is empty.
RECURSIVE PopUntil(_, _)
PopUntil(cache, remove_to_file_id) ==
    IF Front(cache) = None \/ Front(cache)[1].file_id = remove_to_file_id
    THEN cache
    ELSE PopUntil(PopFront(cache), remove_to_file_id)

\* A range whose end is never moved past the first popped row.
FileRangeFirstOnly(cache, popped) ==
    LET n == Len(cache) - Len(popped)
    IN  IF n = 0 THEN None ELSE Some(<<cache[1].file_id, cache[1].file_id>>)

\* A range that starts at the last popped row.
FileRangeLastOnly(cache, popped) ==
    LET n == Len(cache) - Len(popped)
    IN  IF n = 0 THEN None ELSE Some(<<cache[n].file_id, cache[n].file_id>>)

\* A range that stops before the last popped file id.
FileRangeOpenEnd(cache, popped) ==
    LET n == Len(cache) - Len(popped)
    IN  IF n = 0 THEN None
        ELSE Some(<<cache[1].file_id, cache[n].file_id - 1>>)

\* finalize, lines 155-164: (file_range_start, file_range_end) zipped: the
\* file ids of the first and of the last popped row, None when none was.
FileRange(cache, popped) ==
    LET n == Len(cache) - Len(popped)
    IN  IF n = 0 THEN None ELSE Some(<<cache[1].file_id, cache[n].file_id>>)

\* remove_entries(range): succeeds when the medium does and every file of
\* the range exists; it removes the whole range or nothing.
RemoveEntriesOk(sto, range, remove_ok) ==
    remove_ok /\ (range[1]..range[2]) \subseteq StorageFileIds(sto)

\* What the medium does during a finalize: nothing fails, the read of the
\* matched entry fails, or the removal of the range fails.
FinalizeIo == {"ok", "read_err", "remove_err"}

\* A finalize that pops the rows in front of the matched entry before it
\* reads the entry.
FinalizeTrimsBeforeRead(to_block, io) ==
    LET scan == ScanCache(block_cache, storage, to_block, io # "read_err")
    IN  IF io = "read_err" /\ scan.matched = None
        THEN FALSE
        ELSE IF scan.err
        THEN /\ block_cache' = PopUntil(block_cache, scan.matched[1])
             /\ expanded' = StillCached(expanded,
                                        PopUntil(block_cache, scan.matched[1]))
             /\ UNCHANGED <<storage, ncommits, assigned>>
             /\ last' = Call("finalize", FALSE, None, Some(to_block),
                             scan.matched, None, None, None)
             /\ Returns(FALSE)
        ELSE IF scan.unfinalized_from_file_id = None
        THEN /\ UNCHANGED <<storage, block_cache, ncommits, assigned, expanded>>
             /\ last' = Call("finalize", TRUE, None, Some(to_block),
                             scan.matched, None, None, None)
             /\ Returns(TRUE)
        ELSE LET remove_to_file_id == scan.unfinalized_from_file_id[1]
                 popped == PopUntil(block_cache, remove_to_file_id)
                 file_range == FileRange(block_cache, popped)
                 ok == IF file_range = None THEN TRUE
                       ELSE RemoveEntriesOk(storage, file_range[1], io # "remove_err")
             IN  /\ io = "remove_err" => file_range # None
                 /\ block_cache' = popped
                 /\ storage' = IF file_range # None /\ ok
                               THEN RemoveEntries(storage,
                                                  file_range[1][1]..file_range[1][2])
                               ELSE storage
                 /\ last' = Call("finalize", ok, None, Some(to_block),
                                 scan.matched, Some(remove_to_file_id), file_range, None)
                 /\ expanded' = StillCached(expanded, popped)
                 /\ Returns(ok)
                 /\ UNCHANGED <<ncommits, assigned>>

\* Wal::finalize.  A failure of the medium is drawn only for a call finalize
\* makes: read_entrry is called when a row matches, remove_entries when a row
\* was popped.
Finalize(to_block, io) ==
    LET scan == ScanCache(block_cache, storage, to_block, io # "read_err")
    IN  IF io = "read_err" /\ scan.matched = None
        THEN FALSE
        ELSE IF scan.err
        THEN /\ UNCHANGED <<storage, block_cache, ncommits, assigned, expanded>>
             /\ last' = Call("finalize", FALSE, None, Some(to_block),
                             scan.matched, None, None, None)
             /\ Returns(FALSE)
        ELSE IF scan.unfinalized_from_file_id = None
        THEN /\ UNCHANGED <<storage, block_cache, ncommits, assigned, expanded>>
             /\ last' = Call("finalize", TRUE, None, Some(to_block),
                             scan.matched, None, None, None)
             /\ Returns(TRUE)
        ELSE LET remove_to_file_id == scan.unfinalized_from_file_id[1]
                 popped == PopUntil(block_cache, remove_to_file_id)
                 file_range == FileRange(block_cache, popped)
                 ok == IF file_range = None THEN TRUE
                       ELSE RemoveEntriesOk(storage, file_range[1], io # "remove_err")
             IN  /\ io = "remove_err" => file_range # None
                 /\ block_cache' = popped
                 /\ storage' = IF file_range # None /\ ok
                               THEN RemoveEntries(storage,
                                                  file_range[1][1]..file_range[1][2])
                               ELSE storage
                 /\ last' = Call("finalize", ok, None, Some(to_block),
                                 scan.matched, Some(remove_to_file_id), file_range, None)
                 /\ expanded' = StillCached(expanded, popped)
                 /\ Returns(ok)
                 /\ UNCHANGED <<ncommits, assigned>>

\* remove_entry(file_id): succeeds when the medium does and the file exists.
RemoveEntryOk(sto, file_id, remove_ok) ==
    remove_ok /\ file_id \in StorageFileIds(sto)

\* A remove that drops the cache rows before it asks the storage.
RemoveCacheFirst(file_id, remove_ok) ==
    LET ok == RemoveEntryOk(storage, file_id, remove_ok)
    IN  /\ block_cache' = RemoveNotification(block_cache, file_id)
        /\ storage' = IF ok THEN RemoveEntries(storage, {file_id}) ELSE storage
        /\ expanded' = StillCached(expanded, RemoveNotification(block_cache, file_id))
        /\ last' = Call("remove", ok, Some(file_id), None, None, None, None, None)
        /\ Returns(ok)
        /\ UNCHANGED <<ncommits, assigned>>

\* Wal::remove.  remove_ok is the answer of the medium to remove_entry.
Remove(file_id, remove_ok) ==
    LET ok == RemoveEntryOk(storage, file_id, remove_ok)
    IN  /\ storage' = IF ok THEN RemoveEntries(storage, {file_id}) ELSE storage
        /\ block_cache' = IF ok THEN RemoveNotification(block_cache, file_id)
                          ELSE block_cache
        /\ expanded' = IF ok
                       THEN StillCached(expanded, RemoveNotification(block_cache, file_id))
                       ELSE expanded
        /\ last' = Call("remove", ok, Some(file_id), None, None, None, None, None)
        /\ Returns(ok)
        /\ UNCHANGED <<ncommits, assigned>>

\* What a call gives on a Wal with the cache `cache` and the storage `sto`:
\* the cache and the storage it leaves, whether it returns Ok, and the file
\* id commit takes.
Outcome(cache, sto, ok, file_id) ==
    [block_cache |-> cache, storage |-> sto, ok |-> ok, file_id |-> file_id]

\* Wal::commit on (cache, sto).
CommitOn(cache, sto, target, notification, write_ok) ==
    LET file_id == NextFileId(cache)
    IN  Outcome(InsertNotificationBlocks(cache, file_id, notification),
                IF write_ok
                THEN WriteEntry(sto, file_id, WalEntry(target, notification))
                ELSE sto,
                write_ok, Some(file_id))

\* Wal::finalize on (cache, sto).
FinalizeOn(cache, sto, to_block, io) ==
    LET scan == ScanCache(cache, sto, to_block, io # "read_err")
    IN  IF scan.err THEN Outcome(cache, sto, FALSE, None)
        ELSE IF scan.unfinalized_from_file_id = None
        THEN Outcome(cache, sto, TRUE, None)
        ELSE LET remove_to_file_id == scan.unfinalized_from_file_id[1]
                 popped == PopUntil(cache, remove_to_file_id)
                 file_range == FileRange(cache, popped)
                 ok == IF file_range = None THEN TRUE
                       ELSE RemoveEntriesOk(sto, file_range[1], io # "remove_err")
             IN  Outcome(popped,
                         IF file_range # None /\ ok
                         THEN RemoveEntries(sto, file_range[1][1]..file_range[1][2])
                         ELSE sto,
                         ok, None)

\* Wal::remove on (cache, sto).
RemoveOn(cache, sto, file_id, remove_ok) ==
    LET ok == RemoveEntryOk(sto, file_id, remove_ok)
    IN  Outcome(IF ok THEN RemoveNotification(cache, file_id) ELSE cache,
                IF ok THEN RemoveEntries(sto, {file_id}) ELSE sto,
                ok, Some(file_id))

\* The file ids a caller passes to remove.
FileIds == 0..(MaxCommits - 1)

\* Result<T>: Ok(value) or an error.
Ok(value) == [ok |-> TRUE, value |-> value]
Err == [ok |-> FALSE, value |-> None]

\* Storage::entries(range): one item per file id of the range, in ascending
\* order: the file id with its decoded entry, or the error of the read.
StorageEntries(sto, start, end) ==
    [i \in 1..(end - start + 1) |->
        IF (start + i - 1) \in StorageFileIds(sto)
        THEN Ok(<<start + i - 1, sto[start + i - 1]>>)
        ELSE Err]

\* An iterator that starts at file id 0 whatever the range is.
EntriesFromZero(sto) ==
    LET range == FilesRange(sto)
    IN  IF range = None THEN <<>>
        ELSE StorageEntries(sto, 0, range[1][2])

\* Wal::entries: nothing when files_range is None, else the entries of the
\* range, as the items the iterator gives when read forward.
Entries(sto) ==
    LET range == FilesRange(sto)
    IN  IF range = None THEN <<>>
        ELSE StorageEntries(sto, range[1][1], range[1][2])

\* The items of a double-ended iterator when read from the back.
FromBack(items) == [i \in 1..Len(items) |-> items[Len(items) + 1 - i]]

\* Wal::new, lines 55-58: files_range, then every entry of the range is read;
\* a file id of the range that is not on disk is an error of the read and
\* `?` returns it.
NewOk(sto) ==
    LET files_range == FilesRange(sto)
    IN  IF files_range = None THEN TRUE
        ELSE \A id \in files_range[1][1]..files_range[1][2] :
                 id \in StorageFileIds(sto)

\* Wal::new on the directory sto.  When it returns an error there is no Wal:
\* the model keeps an empty cache and allows no call but another Wal::new.
New(sto) ==
    /\ storage' = sto
    /\ block_cache' = IF NewOk(sto) THEN FillBlockCache(sto) ELSE <<>>
    /\ expanded' = IF NewOk(sto) THEN Expanded(sto) ELSE <<>>
    /\ last' = Call("new", NewOk(sto), None, None, None, None, None, None)
    /\ UNCHANGED <<ncommits, assigned, nerrors>>

\* A Wal exists: the last Wal::new did not return an error.
HasWal == last.op = "new" => last.ok

\* Where the process stops: between two calls, inside commit after the rows
\* were inserted and before write_entry, inside finalize after the rows were
\* popped and before remove_entries, inside remove after remove_entry and
\* before remove_notification.
CrashPoints == {"between calls", "commit", "finalize", "remove"}

\* The directory the stopped process leaves: only a remove has touched the
\* storage before its second half.
StorageAtCrash(sto, point, file_id) ==
    IF point = "remove" /\ file_id \in StorageFileIds(sto)
    THEN RemoveEntries(sto, {file_id})
    ELSE sto

\* The process stops at point (the cache is lost with it) and the WAL is
\* reopened with Wal::new on the same directory.
Crash(point, file_id) ==
    /\ point # "between calls" => HasWal
    /\ New(StorageAtCrash(storage, point, file_id))

CommitStep ==
    \E input \in CommitInputs, write_ok \in BOOLEAN :
        Commit(input.target, input.notification, write_ok)

FinalizeStep ==
    \E to_block \in BlockNumHash, io \in FinalizeIo : Finalize(to_block, io)

RemoveStep ==
    \E file_id \in FileIds, remove_ok \in BOOLEAN : Remove(file_id, remove_ok)

Next == CommitStep \/ FinalizeStep \/ RemoveStep

\* Every call, with the failures of the medium.
Spec == Init /\ [][Next]_vars

\* The runs in which every call returns Ok.
NextOk ==
    \/ CommitStep /\ nerrors' = nerrors
    \/ FinalizeStep /\ nerrors' = nerrors
    \/ RemoveStep /\ nerrors' = nerrors

SpecOk == Init /\ [][NextOk]_vars

\* The runs in which every call returns Ok and remove is given the smallest
\* or the largest live file id, as its callers are required to.
RemoveHeadTailStep ==
    /\ StorageFileIds(storage) # {}
    /\ \E file_id \in {SetMin(StorageFileIds(storage)),
                       SetMax(StorageFileIds(storage))} :
           Remove(file_id, TRUE)

NextHeadTail ==
    \/ CommitStep /\ nerrors' = nerrors
    \/ FinalizeStep /\ nerrors' = nerrors
    \/ RemoveHeadTailStep /\ nerrors' = nerrors

SpecHeadTail == Init /\ [][NextHeadTail]_vars

\* The runs made of commit calls that return Ok, from the empty WAL.
NextCommits == CommitStep /\ nerrors' = nerrors

SpecCommits == Init /\ [][NextCommits]_vars

CrashStep ==
    \E point \in CrashPoints, file_id \in FileIds : Crash(point, file_id)

\* Every call, with the failures of the medium, and the process stopping at
\* any point and reopening the WAL.
NextCrash ==
    \/ HasWal /\ CommitStep
    \/ HasWal /\ FinalizeStep
    \/ HasWal /\ RemoveStep
    \/ CrashStep

SpecCrash == Init /\ [][NextCrash]_vars

\* The WAL is reopened between two calls.
RestartStep == New(storage)

\* The runs in which every call returns Ok, remove is given the smallest or
\* the largest live file id, and the WAL is reopened between calls.
NextRestart ==
    \/ CommitStep /\ nerrors' = nerrors
    \/ FinalizeStep /\ nerrors' = nerrors
    \/ RemoveHeadTailStep /\ nerrors' = nerrors
    \/ RestartStep

SpecRestart == Init /\ [][NextRestart]_vars

---------------------------------------------------------------------------
(* Properties *)

\* The rows of the cache with a file id in ids, in order.
RowsOf(cache, ids) == SelectSeq(cache, LAMBDA row : row.file_id \in ids)

\* sto2 holds exactly the entries of sto whose file id is in ids.
KeepsExactly(sto, sto2, ids) ==
    /\ DOMAIN sto2 = DOMAIN sto \cap ids
    /\ \A id \in DOMAIN sto2 : sto2[id] = sto[id]

\* The file id of the entry that holds the first row committing to_block,
\* None when no row does.
MatchedFileId(cache, to_block) ==
    IF FirstMatch(cache, to_block) = 0 THEN None
    ELSE Some(cache[FirstMatch(cache, to_block)].file_id)

\* The number of blocks the stored entry file_id commits.
CommittedLen(sto, file_id) == Len(committed_chain(sto[file_id].notification))

\* The step is a call of finalize(to_block).
IsFinalizeOf(to_block) ==
    last'.op = "finalize" /\ last'.to_block = Some(to_block)

\* C1 (as claimed): finalize(to_block), when no row of the cache commits
\* to_block, returns Ok and leaves the cache and the storage as they were.
C1_FinalizeAbsentBlockIsNoOp ==
    [][\A to_block \in BlockNumHash :
          (IsFinalizeOf(to_block) /\ MatchedFileId(block_cache, to_block) = None)
          => (last'.ok /\ block_cache' = block_cache /\ storage' = storage)]_vars

C4_SecondFinalizeIsNoOp ==
    [][(/\ last.op = "finalize" /\ last.ok
        /\ last'.op = "finalize" /\ last'.to_block = last.to_block)
       => (block_cache' = block_cache /\ storage' = storage)]_vars

\* C5: in a run of commit calls that return Ok from the empty WAL, the n-th
\* commit is stored at file id n-1: the ids given so far are 0..n-1.
C5_CommitIdsCountUp ==
    /\ assigned = 0..(ncommits - 1)
    /\ StorageFileIds(storage) = 0..(ncommits - 1)
    /\ last.op = "commit" => last.file_id = Some(ncommits - 1)

\* C5 witness: three commits were made and one of them has several rows.
C5_Witness ==
    /\ last.op = "commit" /\ last.ok
    /\ ncommits >= 3
    /\ Len(block_cache) > ncommits

\* C6 (as claimed): a commit that returns Ok is never given a file id an
\* earlier commit was given.
C6_FileIdsNeverReused ==
    [][(last'.op = "commit" /\ last'.ok) => last'.file_id[1] \notin assigned]_vars

\* C7: after calls that all returned Ok, the file ids with rows in the cache
\* are the file ids in the storage.
C7_CacheMirrorsStorage ==
    CacheFileIds(block_cache) = StorageFileIds(storage)

\* C7 witness: a finalize removed a range of entries and entries remain.
C7_Witness ==
    /\ last.op = "finalize" /\ last.ok /\ nerrors = 0
    /\ last.file_range # None
    /\ last.file_range[1][1] < last.file_range[1][2]
    /\ StorageFileIds(storage) # {}

\* C8 (as claimed): when commit returns an error the cache has no row for
\* the file id of the attempt, and cache and storage hold the same file ids.
C8_FailedCommitKeepsI2 ==
    (last.op = "commit" /\ ~last.ok)
    => /\ last.file_id[1] \notin CacheFileIds(block_cache)
       /\ CacheFileIds(block_cache) = StorageFileIds(storage)

\* C9 (as claimed): when finalize returns an error, the cache and the storage
\* are as they were before the call.
C9_FailedFinalizeChangesNothing ==
    [][(last'.op = "finalize" /\ ~last'.ok)
       => (block_cache' = block_cache /\ storage' = storage)]_vars

\* C10: remove(file_id) that returns Ok deletes the stored entry file_id and
\* the rows tagged file_id and nothing else; it returns an error when the
\* file is not in the storage, and when it returns an error the cache (and
\* the storage) are unchanged.
C10_RemoveSymmetricOrUnchanged ==
    [][last'.op = "remove"
       => LET file_id == last'.file_id[1]
          IN  /\ file_id \notin StorageFileIds(storage) => ~last'.ok
              /\ last'.ok =>
                    /\ KeepsExactly(storage, storage',
                                    StorageFileIds(storage) \ {file_id})
                    /\ block_cache' = SelectSeq(block_cache,
                                                LAMBDA row : row.file_id # file_id)
              /\ ~last'.ok => (block_cache' = block_cache /\ storage' = storage)]_vars

\* C10 witness: the medium failed a remove of a live file id and its rows
\* are still in the cache.
C10_Witness ==
    /\ last.op = "remove" /\ ~last.ok
    /\ last.file_id[1] \in StorageFileIds(storage)
    /\ last.file_id[1] \in CacheFileIds(block_cache)
    /\ Cardinality(StorageFileIds(storage)) > 1

\* C13: every file id that has rows in the cache has all the rows its
\* notification was expanded to when it was committed, in that order; no call,
\* failed calls included, leaves a file id with some of its rows only.
C13_EntryRowsAreWhole ==
    \A id \in CacheFileIds(block_cache) :
        /\ id \in DOMAIN expanded
        /\ RowsOf(block_cache, {id}) = expanded[id]

\* C13 witness: a finalize removed entries and left an entry of several rows
\* in the cache.
C13_Witness ==
    /\ last.op = "finalize" /\ last.file_range # None
    /\ \E id \in CacheFileIds(block_cache) : Len(RowsOf(block_cache, {id})) > 1

\* The rows of the stored notifications of ids, by ascending file id.
RECURSIVE ExpandAscending(_, _)
ExpandAscending(sto, ids) ==
    IF ids = {} THEN <<>>
    ELSE Rows(SetMin(ids), sto[SetMin(ids)].notification)
           \o ExpandAscending(sto, ids \ {SetMin(ids)})

\* C11 (as claimed): whenever the WAL is reopened with Wal::new after the
\* process stopped, Wal::new returns a Wal whose cache holds the rows of
\* every stored notification, by ascending file id, and no other row.
C11_RecoveryRebuildsCache ==
    last.op = "new"
    => /\ last.ok
       /\ block_cache = ExpandAscending(storage, StorageFileIds(storage))

\* C12: in a run of calls that all returned Ok, with remove given the head
\* or the tail entry only, reopening the WAL with Wal::new gives the cache the
\* Wal held before (same rows, same file ids, same order), and so the file
\* id the next commit takes is the one it would have taken.
C12_RestartKeepsCache ==
    [][last'.op = "new"
       => /\ last'.ok
          /\ block_cache' = block_cache
          /\ NextFileId(block_cache') = NextFileId(block_cache)]_vars

\* C12 witness: the WAL was reopened on a trimmed log that holds several
\* entries, one of them of several rows.
C12_Witness ==
    /\ last.op = "new" /\ last.ok
    /\ Cardinality(CacheFileIds(block_cache)) > 1
    /\ Len(block_cache) > Cardinality(CacheFileIds(block_cache))
    /\ 0 \notin StorageFileIds(storage)

\* S is empty or one interval min..max.
IsInterval(S) == IF S = {} THEN TRUE ELSE S = SetMin(S)..SetMax(S)

\* C14: in a run of calls that all returned Ok, with remove given the head or
\* the tail entry only, the live file ids (in the storage and in the cache)
\* are empty or one interval; a commit adds one id, max+1 when there is a max;
\* a finalize removes the ids below some bound.
C14_LiveRangeGapFree ==
    [][LET ids == StorageFileIds(storage)
           ids2 == StorageFileIds(storage')
       IN  /\ IsInterval(ids2)
           /\ CacheFileIds(block_cache') = ids2
           /\ last'.op = "commit"
                => /\ ids2 = ids \cup {last'.file_id[1]}
                   /\ last'.file_id[1] \notin ids
                   /\ ids # {} => last'.file_id[1] = SetMax(ids) + 1
           /\ last'.op = "finalize"
                => \E k \in ids \cup {U64_MAX} : ids2 = { id \in ids : id >= k }]_vars

\* C14 witness: after a trim of the head, a commit extended an interval that
\* does not start at 0.
C14_Witness ==
    /\ last.op = "commit" /\ last.ok
    /\ Cardinality(StorageFileIds(storage)) > 1
    /\ 0 \notin StorageFileIds(storage)
    /\ last.file_id[1] \in StorageFileIds(storage)

\* One row per block of chain, in the chain's order.
ChainRows(file_id, action, chain) ==
    [i \in 1..Len(chain) |->
        [file_id |-> file_id, action |-> action, block |-> chain[i]]]

\* C15: a commit that returns Ok leaves the rows of the cache as they were
\* and puts behind them the rows of its notification, tagged with its file
\* id: Commit rows of the chain for ChainCommitted, Revert rows of the chain
\* for ChainReverted, and for ChainReorged the Revert rows of the old chain
\* followed by the Commit rows of the new chain, each in the chain's order.
C15_CommitAppendsExpansion ==
    [][(last'.op = "commit" /\ last'.ok)
       => LET file_id == last'.file_id[1]
              notification == storage'[file_id].notification
          IN  block_cache' = block_cache \o
                CASE notification.kind = "ChainCommitted" ->
                       ChainRows(file_id, "Commit", notification.new)
                  [] notification.kind = "ChainReverted" ->
                       ChainRows(file_id, "Revert", notification.old)
                  [] notification.kind = "ChainReorged" ->
                       ChainRows(file_id, "Revert", notification.old)
                         \o ChainRows(file_id, "Commit", notification.new)]_vars

\* C15 witness: a reorg with a new chain of two blocks was committed behind
\* an earlier entry.
C15_Witness ==
    /\ last.op = "commit" /\ last.ok
    /\ last.file_id[1] > 0
    /\ last.file_id[1] \in StorageFileIds(storage)
    /\ storage[last.file_id[1]].notification.kind = "ChainReorged"
    /\ Len(storage[last.file_id[1]].notification.new) = 2
    /\ block_cache[1].file_id < last.file_id[1]

\* The rows of the notifications of items, in the items' order.
RECURSIVE RowsOfItems(_)
RowsOfItems(items) ==
    IF items = <<>> THEN <<>>
    ELSE Rows(Head(items).value[1], Head(items).value[2].notification)
           \o RowsOfItems(Tail(items))

C17_SurvivorsKeepFileId ==
    [][last'.op \in {"finalize", "remove", "new"}
       => /\ \A id \in StorageFileIds(storage') :
                /\ id \in StorageFileIds(storage)
                /\ storage'[id] = storage[id]
          /\ \A id \in CacheFileIds(block_cache') :
                /\ id \in DOMAIN expanded
                /\ RowsOf(block_cache', {id}) = expanded[id]
          /\ CacheFileIds(block_cache') = StorageFileIds(storage')]_vars

\* C17 witness: the WAL was reopened after its head was trimmed, and the
\* entries left are not numbered from 0.
C17_Witness ==
    /\ last.op = "new" /\ last.ok
    /\ StorageFileIds(storage) # {}
    /\ SetMin(CacheFileIds(block_cache) \cup StorageFileIds(storage)) >= 1

\* The stored entry file_id commits a block with a number above to_block's.
CommitsHigherBlock(sto, file_id, to_block) ==
    \E i \in 1..CommittedLen(sto, file_id) :
        committed_chain(sto[file_id].notification)[i].number > to_block.number

\* The file id of the first stored notification that commits a block higher
\* than to_block, U64_MAX when none does.
FirstUnfinalizedFileId(sto, to_block) ==
    LET higher == { id \in StorageFileIds(sto) : CommitsHigherBlock(sto, id, to_block) }
    IN  IF higher = {} THEN U64_MAX ELSE SetMin(higher)

\* C18 (as claimed): a finalize(to_block) that finds to_block and returns Ok
\* removes exactly the entries before the first notification that commits a
\* block higher than to_block (every entry when there is none), from the
\* cache and from the storage.
C18_FinalizeUpToFirstUnfinalized ==
    [][\A to_block \in BlockNumHash :
          (IsFinalizeOf(to_block) /\ last'.ok /\ last'.matched # None)
          => LET bound == FirstUnfinalizedFileId(storage, to_block)
                 kept == { id \in StorageFileIds(storage) : id >= bound }
             IN  /\ KeepsExactly(storage, storage', kept)
                 /\ block_cache' = RowsOf(block_cache, kept)]_vars

\* C19: in any state, after failed calls too, commit takes file id 0 when
\* the cache is empty and else 1 + the file id of the last row of the cache;
\* when it returns Ok the entry is stored at that id and every other stored
\* entry is as it was (when it returns an error the storage is as it was);
\* the rows the cache had are still its first rows, unchanged.
C19_CommitFileIdRule ==
    [][last'.op = "commit"
       => LET file_id == last'.file_id[1]
          IN  /\ file_id = IF Len(block_cache) = 0 THEN 0
                           ELSE block_cache[Len(block_cache)].file_id + 1
              /\ last'.ok
                   => /\ StorageFileIds(storage') = StorageFileIds(storage) \cup {file_id}
                      /\ RowsOf(block_cache', {file_id})
                           = Rows(file_id, storage'[file_id].notification)
              /\ ~last'.ok => StorageFileIds(storage') = StorageFileIds(storage)
              /\ \A id \in StorageFileIds(storage) \ {file_id} :
                    storage'[id] = storage[id]
              /\ Len(block_cache') >= Len(block_cache)
              /\ SubSeq(block_cache', 1, Len(block_cache)) = block_cache]_vars

\* C19 witness: a commit took file id 2 from the last row of the cache while
\* file id 1, left in the cache by a failed write, is not in the storage.
C19_Witness ==
    /\ last.op = "commit" /\ last.ok /\ last.file_id = Some(2)
    /\ StorageFileIds(storage) = {0, 2}
    /\ CacheFileIds(block_cache) = {0, 1, 2}

\* C20: in a finalize(to_block), the row that matches is the first row of
\* the cache, front to back, with action Commit and the number and the hash
\* of to_block: no row before it is such a row, whatever Revert rows of the
\* block and Commit rows with another hash come before and whatever Commit
\* rows of the block come after; that row alone gives the boundary (the file
\* id of the row behind it, or u64::MAX, when its entry commits one block,
\* else its own file id).  No row matches when the cache has no such row.
C20_FirstCommitRowDecides ==
    [][\A to_block \in BlockNumHash :
          IsFinalizeOf(to_block)
          => LET hits == { i \in 1..Len(block_cache) :
                             /\ block_cache[i].action = "Commit"
                             /\ block_cache[i].block = to_block }
             IN  IF hits = {} THEN last'.matched = None
                 ELSE \E i \in hits :
                        /\ \A j \in hits : i <= j
                        /\ last'.matched = Some(block_cache[i].file_id)
                        /\ last'.remove_to_file_id = Some(
                              IF CommittedLen(storage, block_cache[i].file_id) # 1
                              THEN block_cache[i].file_id
                              ELSE IF i = Len(block_cache) THEN U64_MAX
                              ELSE block_cache[i + 1].file_id)]_vars

\* C20 witness: finalize matched a row of an entry that came after an entry
\* without a matching row, and a Commit row of the same block in a later
\* entry is still in the cache.
C20_Witness ==
    /\ last.op = "finalize" /\ last.ok
    /\ last.matched # None /\ last.file_range # None
    /\ last.file_range[1][1] < last.matched[1]
    /\ \E i \in 1..Len(block_cache) :
          /\ block_cache[i].action = "Commit"
          /\ Some(block_cache[i].block) = last.to_block
          /\ block_cache[i].file_id > last.matched[1]

\* C21: a finalize that returns Ok and had a boundary (remove_to_file_id)
\* pops from the cache exactly the rows of the file ids below the boundary,
\* and the storage loses exactly the file ids from the smallest to the
\* largest popped id; when no row is popped, and when there is no boundary,
\* the storage is as it was.
C21_SamePrefixBothSides ==
    [][(last'.op = "finalize" /\ last'.ok)
       => IF last'.remove_to_file_id = None
          THEN block_cache' = block_cache /\ storage' = storage
          ELSE LET boundary == last'.remove_to_file_id[1]
                   popped == { id \in CacheFileIds(block_cache) : id < boundary }
               IN  /\ block_cache' = RowsOf(block_cache,
                                             CacheFileIds(block_cache) \ popped)
                   /\ IF popped = {} THEN storage' = storage
                      ELSE KeepsExactly(storage, storage',
                                        StorageFileIds(storage)
                                          \ (SetMin(popped)..SetMax(popped)))]_vars

\* C21 witness: a finalize popped two file ids, removed both from the
\* storage and left the entry at the boundary in the cache and in the storage.
C21_Witness ==
    /\ last.op = "finalize" /\ last.ok
    /\ last.file_range # None /\ last.remove_to_file_id # None
    /\ last.file_range[1][1] < last.file_range[1][2]
    /\ last.remove_to_file_id[1] \in StorageFileIds(storage)
    /\ last.remove_to_file_id[1] \in CacheFileIds(block_cache)
    /\ last.file_range[1][1] \notin StorageFileIds(storage)
    /\ last.file_range[1][2] \notin StorageFileIds(storage)

\* C22: a finalize that returns the error of the read of the matched entry
\* (the medium failed, or the file is not in the storage) has popped no row
\* and removed no stored entry: the cache and the storage are as they were.
C22_ReadFailureChangesNothing ==
    [][(/\ last'.op = "finalize" /\ ~last'.ok
        /\ last'.matched # None /\ last'.remove_to_file_id = None)
       => (block_cache' = block_cache /\ storage' = storage)]_vars

\* C22 witness: the read of the matched entry failed on the medium while an
\* earlier entry was in front of it in the cache; both are still there.
C22_Witness ==
    /\ last.op = "finalize" /\ ~last.ok
    /\ last.matched # None /\ last.remove_to_file_id = None
    /\ last.matched[1] \in StorageFileIds(storage)
    /\ block_cache # <<>>
    /\ block_cache[1].file_id < last.matched[1]
    /\ block_cache[1].file_id \in StorageFileIds(storage)

\* The item entries() gives for the stored file id.
EntryItem(sto, file_id) ==
    Entries(sto)[file_id - FilesRange(sto)[1][1] + 1]

\* C23: after a commit that returns Ok, entries() gives for its file id the
\* target and the notification the commit was given; and no call, failed
\* calls included, changes what entries() gives for a file id that is in the
\* storage before and after it, except a commit that is given that very
\* file id.
C23_LiveEntriesImmutable ==
    [][/\ (last'.op = "commit" /\ last'.ok)
          => EntryItem(storage', last'.file_id[1])
               = Ok(<<last'.file_id[1], last'.entry[1]>>)
       /\ \A id \in StorageFileIds(storage) \cap StorageFileIds(storage') :
             (last'.op = "commit" /\ last'.ok /\ last'.file_id = Some(id))
             \/ EntryItem(storage', id) = EntryItem(storage, id)]_vars

\* C23 witness: an entry committed with the target Canonicalize is read back
\* unchanged after a later commit to another file id.
C23_Witness ==
    /\ last.op = "commit" /\ last.ok /\ last.file_id = Some(1)
    /\ StorageFileIds(storage) = {0, 1}
    /\ EntryItem(storage, 0)
         = Ok(<<0, WalEntry("Canonicalize", ChainCommitted(<<B1>>))>>)
    /\ EntryItem(storage, 1) = Ok(<<1, last.entry[1]>>)

\* C25 (as claimed): in every state, after failed calls too, the file id a
\* commit takes is not the file id of an entry that is in the storage.
C25_CommitNeverOverwrites ==
    [][last'.op = "commit"
       => last'.file_id[1] \notin StorageFileIds(storage)]_vars

\* C26 (as claimed): a commit that returns Ok right after a commit that
\* failed on the write is stored at the file id of the failed attempt; the
\* file ids in the storage are then one interval, and Wal::new can read
\* every entry of files_range.
C26_FailedCommitKeepsFileId ==
    [][(/\ last.op = "commit" /\ ~last.ok
        /\ last'.op = "commit" /\ last'.ok)
       => /\ last'.file_id = last.file_id
          /\ IsInterval(StorageFileIds(storage'))
          /\ NewOk(storage')]_vars

\* The storages that differ from sto in the targets of the entries only.
Retargeted(sto) ==
    { [id \in DOMAIN sto |-> WalEntry(targets[id], sto[id].notification)] :
        targets \in [DOMAIN sto -> NotificationCommitTarget] }

\* The stored notifications, without the targets.
StoredNotifications(sto) == [id \in DOMAIN sto |-> sto[id].notification]

\* The outcome is the one of the step.
IsOutcome(outcome) ==
    /\ outcome.block_cache = block_cache'
    /\ outcome.storage = storage'
    /\ outcome.ok = last'.ok
    /\ outcome.file_id = last'.file_id

\* The outcome is the one of the step but for the stored targets.
IsOutcomeButTargets(outcome) ==
    /\ outcome.block_cache = block_cache'
    /\ StoredNotifications(outcome.storage) = StoredNotifications(storage')
    /\ outcome.ok = last'.ok
    /\ outcome.file_id = last'.file_id

\* C24: every call gives, on a Wal that differs in the targets of the stored
\* entries only, and for a commit whatever target it is given, the same
\* answer, the same file id, the same cache and the same stored file ids and
\* notifications.  By induction two runs of the same calls that differ in
\* the targets only agree on all of these after every step.
C24_TargetIsOpaque ==
    [][\A sto2 \in Retargeted(storage) :
          /\ last'.op = "commit"
               => /\ IsOutcome(CommitOn(block_cache, storage, last'.entry[1].target,
                                         last'.entry[1].notification, last'.ok))
                  /\ \A target2 \in NotificationCommitTarget :
                        IsOutcomeButTargets(
                            CommitOn(block_cache, sto2, target2,
                                     last'.entry[1].notification, last'.ok))
          /\ last'.op = "finalize"
               => \E io \in FinalizeIo :
                     /\ IsOutcome(FinalizeOn(block_cache, storage,
                                             last'.to_block[1], io))
                     /\ IsOutcomeButTargets(FinalizeOn(block_cache, sto2,
                                                       last'.to_block[1], io))
          /\ last'.op = "remove"
               => \E remove_ok \in BOOLEAN :
                     /\ IsOutcome(RemoveOn(block_cache, storage,
                                           last'.file_id[1], remove_ok))
                     /\ IsOutcomeButTargets(RemoveOn(block_cache, sto2,
                                                     last'.file_id[1], remove_ok))]_vars

\* C24 witness: a finalize removed an entry and left in the storage an entry
\* that was committed as a Canonicalize.
C24_Witness ==
    /\ last.op = "finalize" /\ last.ok /\ last.file_range # None
    /\ \E id \in StorageFileIds(storage) : storage[id].target = "Canonicalize"

====
